---- MODULE Spec2Model ----
(***************************************************************************)
(* WhenWhere: the timezone explorer's view controller (TimezoneExplorer),  *)
(* its URL parameters, and the city search box (CitySearch).               *)
(*                                                                         *)
(* Text is modelled as a sequence of one-character strings, so that        *)
(* splitting, trimming, percent-encoding and substring search are computed *)
(* character by character.  An optional value (null | v) is <<>> | <<v>>.  *)
(***************************************************************************)
EXTENDS Integers, Sequences, FiniteSets, TLC

VARIABLES
    searchCatalog,      \* the catalog CitySearch searches
    mounted,            \* useState(false)
    search,             \* window.location.search, without the leading "?"
    homeTz,             \* useState("Europe/Sarajevo")
    pinnedCities,       \* useState<City[]>([])
    highlightedCities,  \* useState<City[]>([])
    hoveredCity,        \* useState<City | null>(null)
    tooltip,            \* useState<TooltipState>(null): the tooltip's city
    hiddenCities,       \* useState<Set<string>>(new Set())
    hoverDismissTimer,  \* useRef: TRUE while it holds the id of a timeout
    renderedPinned,     \* the pinnedCities value the last render handed to the handlers
    query,              \* CitySearch: useState("")
    open,               \* CitySearch: useState(false)
    activeIndex,        \* CitySearch: useState(-1)
    pending,            \* the handlers that ran since the last render
    lastPin,            \* history: whether the last handleCityPin was rejected at capacity
    now,                \* useState<number | null>(null)
    clock,              \* Date.now(), in the model's hours
    tooltipTime,        \* tooltip.time: the hour handleCityHover formatted
    dismissPending,     \* the timeout hoverDismissTimer names has not fired yet
    orphanTimers,       \* dismiss timeouts that are pending and that no ref names
    unmapped,           \* the names of the cities the projection gives no point for
    theme,              \* useState<Theme>("dark")
    storedTheme,        \* localStorage["tz-theme"]: <<>> or <<value>>
    darkClass,          \* document.documentElement has the class "dark"
    copied,             \* useState(false)
    copiedTimers,       \* pending timeouts of handleShare that reset copied
    lastShare           \* history: how the last handleShare went

vars == <<searchCatalog, mounted, search, homeTz, pinnedCities, highlightedCities,
          hoveredCity, tooltip, hiddenCities, hoverDismissTimer, renderedPinned,
          query, open, activeIndex, pending, lastPin, now, clock, tooltipTime,
          dismissPending, orphanTimers, unmapped, theme, storedTheme, darkClass,
          copied, copiedTimers, lastShare>>

searchBoxVars == <<query, open, activeIndex>>
hoverVars == <<hoveredCity, tooltip, hoverDismissTimer, tooltipTime, dismissPending,
               orphanTimers>>
timerVars == <<hoverDismissTimer, dismissPending, orphanTimers>>
timeVars == <<now, clock>>
pageVars == <<unmapped, theme, copied, copiedTimers, lastShare>>
storeVars == <<storedTheme, darkClass>>

----------------------------------------------------------------------------
(* Bounds of the model *)

\* longest compare parameter (in names) an initial URL carries
MaxNames == 6

\* most cities removed from the map at one time
MaxHidden == 1

\* largest catalog of the search box's runs, and the longest pattern of city
\* kinds a catalog repeats
MaxCities == 14
MaxPattern == 2

----------------------------------------------------------------------------
(* Text helpers: String.prototype.split / join / trim / replace *)

Min(a, b) == IF a <= b THEN a ELSE b
Max(a, b) == IF a >= b THEN a ELSE b

Range(s) == {s[i] : i \in 1..Len(s)}

\* Array.prototype.slice(0, n)
Slice(s, n) == SubSeq(s, 1, Min(n, Len(s)))

\* index of the first ch in s, 0 when there is none
IndexOf(s, ch) ==
    IF \E i \in 1..Len(s) : s[i] = ch
    THEN CHOOSE i \in 1..Len(s) : s[i] = ch /\ \A j \in 1..(i - 1) : s[j] # ch
    ELSE 0

RECURSIVE Split(_, _)
Split(s, ch) ==
    LET i == IndexOf(s, ch)
    IN  IF i = 0 THEN <<s>>
        ELSE <<SubSeq(s, 1, i - 1)>> \o Split(SubSeq(s, i + 1, Len(s)), ch)

RECURSIVE Join(_, _)
Join(parts, sep) ==
    IF parts = <<>> THEN <<>>
    ELSE IF Len(parts) = 1 THEN parts[1]
    ELSE parts[1] \o sep \o Join(Tail(parts), sep)

RECURSIVE TrimStart(_)
TrimStart(s) ==
    IF s # <<>> /\ s[1] = " " THEN TrimStart(Tail(s)) ELSE s

RECURSIVE TrimEnd(_)
TrimEnd(s) ==
    IF s # <<>> /\ s[Len(s)] = " " THEN TrimEnd(SubSeq(s, 1, Len(s) - 1)) ELSE s

Trim(s) == TrimEnd(TrimStart(s))

\* name.replace(/ /g, "%20")
ReplaceSpaces(s) == Join(Split(s, " "), <<"%", "2", "0">>)

UpperChars == <<"A","B","C","D","E","F","G","H","I","J","K","L","M",
                "N","O","P","Q","R","S","T","U","V","W","X","Y","Z">>
LowerChars == <<"a","b","c","d","e","f","g","h","i","j","k","l","m",
                "n","o","p","q","r","s","t","u","v","w","x","y","z">>

ToLowerChar(c) ==
    IF \E i \in 1..26 : UpperChars[i] = c
    THEN LowerChars[CHOOSE i \in 1..26 : UpperChars[i] = c]
    ELSE c

ToLowerCase(s) == [i \in 1..Len(s) |-> ToLowerChar(s[i])]

\* String.prototype.includes
Includes(s, q) ==
    \E i \in 0..(Len(s) - Len(q)) : SubSeq(s, i + 1, i + Len(q)) = q

----------------------------------------------------------------------------
(* URLSearchParams: the application/x-www-form-urlencoded parser *)

\* the escapes that occur over the model's alphabet: %20 %2B %2C %26 %3D %25
HexPairs   == << <<"2","0">>, <<"2","B">>, <<"2","C">>, <<"2","6">>, <<"3","D">>, <<"2","5">> >>
HexDecoded == << " ", "+", ",", "&", "=", "%" >>

RECURSIVE PercentDecode(_)
PercentDecode(s) ==
    IF s = <<>> THEN <<>>
    ELSE IF /\ s[1] = "%"
            /\ Len(s) >= 3
            /\ \E k \in 1..Len(HexPairs) : HexPairs[k] = <<s[2], s[3]>>
         THEN <<HexDecoded[CHOOSE k \in 1..Len(HexPairs) : HexPairs[k] = <<s[2], s[3]>>]>>
              \o PercentDecode(SubSeq(s, 4, Len(s)))
         ELSE <<s[1]>> \o PercentDecode(Tail(s))

PlusToSpace(s) == [i \in 1..Len(s) |-> IF s[i] = "+" THEN " " ELSE s[i]]

FormDecode(s) == PercentDecode(PlusToSpace(s))

\* one "name=value" piece of the query, decoded
ParsePair(piece) ==
    LET i == IndexOf(piece, "=")
    IN  IF i = 0 THEN [name |-> FormDecode(piece), value |-> <<>>]
        ELSE [name  |-> FormDecode(SubSeq(piece, 1, i - 1)),
              value |-> FormDecode(SubSeq(piece, i + 1, Len(piece)))]

\* new URLSearchParams(window.location.search)
URLSearchParams(s) ==
    LET pieces == SelectSeq(Split(s, "&"), LAMBDA p : p # <<>>)
    IN  [k \in 1..Len(pieces) |-> ParsePair(pieces[k])]

\* params.get(key): the first value of that name, or null
ParamsGet(params, key) ==
    IF \E k \in 1..Len(params) : params[k].name = key
    THEN <<params[CHOOSE k \in 1..Len(params) :
                /\ params[k].name = key
                /\ \A j \in 1..(k - 1) : params[j].name # key].value>>
    ELSE <<>>

\* what the browser keeps as location.search of the string handed to
\* history.replaceState: a space in the query is percent-encoded
LocationSearch(s) == Join(Split(s, " "), <<"%", "2", "0">>)

----------------------------------------------------------------------------
(* The catalog and the zones *)

\* the names of the sample cities of the search box's runs: a letter and the
\* city's place in its catalog
ANames ==
    << "a01", "a02", "a03", "a04", "a05", "a06", "a07", "a08", "a09", "a10",
       "a11", "a12", "a13", "a14", "a15", "a16" >>
BNames ==
    << "b01", "b02", "b03", "b04", "b05", "b06", "b07", "b08", "b09", "b10",
       "b11", "b12", "b13", "b14", "b15", "b16" >>

SampleChars ==
    [n \in {ANames[i] : i \in 1..Len(ANames)} \cup {BNames[i] : i \in 1..Len(BNames)} |->
        LET i == CHOOSE i \in 1..Len(ANames) : n \in {ANames[i], BNames[i]}
            tens == <<"0","1">>[(i \div 10) + 1]
            ones == <<"0","1","2","3","4","5","6","7","8","9">>[(i % 10) + 1]
        IN  <<IF n = ANames[i] THEN "a" ELSE "b", tens, ones>>]

\* a city's name and country are kept as strings; Chars gives their text
Chars ==
    SampleChars @@
    ("Peru"     :> <<"P","e","r","u">>) @@
    ("Malta"    :> <<"M","a","l","t","a">>) @@
    ("Chile"    :> <<"C","h","i","l","e">>) @@
    ("Tokyo"    :> <<"T","o","k","y","o">>) @@
    ("Oslo"     :> <<"O","s","l","o">>) @@
    ("New York" :> <<"N","e","w"," ","Y","o","r","k">>) @@
    ("Rome"     :> <<"R","o","m","e">>) @@
    ("Cairo"    :> <<"C","a","i","r","o">>) @@
    ("Japan"    :> <<"J","a","p","a","n">>) @@
    ("Norway"   :> <<"N","o","r","w","a","y">>) @@
    ("USA"      :> <<"U","S","A">>) @@
    ("Italy"    :> <<"I","t","a","l","y">>) @@
    ("Egypt"    :> <<"E","g","y","p","t">>)

City(n, c, z) == [name |-> n, country |-> c, tz |-> z]

\* the catalog of the controller's runs: five cities, one more than can be pinned
CITIES ==
    << City("Tokyo",    "Japan",  "Asia/Tokyo"),
       City("Oslo",     "Norway", "Europe/Oslo"),
       City("New York", "USA",    "America/New_York"),
       City("Rome",     "Italy",  "Europe/Rome"),
       City("Cairo",    "Egypt",  "Africa/Cairo") >>

FEATURED_CITY_NAMES == {"Tokyo", "Oslo", "New York"}

\* the kinds of sample city: a city named "a.." in Peru, one named "b.." in
\* Malta (the letter a is in its country only), a city named "a.." in Chile at
\* offset 0, and a city named "b.." in Chile whose zone does not resolve
Kinds ==
    << [names |-> ANames, country |-> "Peru",  tz |-> "Europe/Oslo"],
       [names |-> BNames, country |-> "Malta", tz |-> "Europe/Rome"],
       [names |-> ANames, country |-> "Chile", tz |-> "UTC"],
       [names |-> BNames, country |-> "Chile", tz |-> "Mars/Phobos"] >>

\* the catalog of n cities whose kinds repeat the pattern
SampleCatalog(pattern, n) ==
    [i \in 1..n |->
        LET k == Kinds[pattern[((i - 1) % Len(pattern)) + 1]]
        IN  City(k.names[i], k.country, k.tz)]

Patterns == UNION {[1..m -> 1..Len(Kinds)] : m \in 1..MaxPattern}

Catalogs == {SampleCatalog(p, n) : p \in Patterns, n \in 0..MaxCities}

\* The model's calendar.  An instant is a number of hours; day 0 is a winter
\* day, on day 1 the American zones have gone over to summer time, and from
\* day 2 on the European zones have too.
UsSummer(at) == at \div 24 >= 1
EuSummer(at) == at \div 24 >= 2

\* DateTime.fromMillis(at).setZone(tz).offset, in minutes; <<>> is the NaN of
\* a zone luxon cannot resolve (the DateTime is invalid, nothing is thrown)
ZoneOffset(tz, at) ==
    CASE tz = "Asia/Tokyo"       -> <<540>>
      [] tz = "Europe/Oslo"      -> <<IF EuSummer(at) THEN 120 ELSE 60>>
      [] tz = "Europe/Rome"      -> <<IF EuSummer(at) THEN 120 ELSE 60>>
      [] tz = "Europe/Sarajevo"  -> <<IF EuSummer(at) THEN 120 ELSE 60>>
      [] tz = "Africa/Cairo"     -> <<120>>
      [] tz = "America/New_York" -> <<IF UsSummer(at) THEN -240 ELSE -300>>
      [] tz = "Etc/GMT+5"        -> <<-300>>
      [] tz = "UTC"              -> <<0>>
      [] OTHER                   -> <<>>

NaN == <<>>

\* the DateTime of the instant in a zone at the offset
ZoneTime(offset, at) ==
    [offset |-> offset,
     hour   |-> IF offset = NaN THEN NaN ELSE <<((at * 60 + offset[1]) \div 60) % 24>>]

Names(cs) == [i \in 1..Len(cs) |-> cs[i].name]

\* a name is an element of the list: xs.some((c) => c.name === name)
HasName(cs, name) == \E i \in 1..Len(cs) : cs[i].name = name

----------------------------------------------------------------------------
(* CitySearch: parseOffsetQuery, groupByCountry and the results memo *)

MaxResults == 12

Digits == <<"0","1","2","3","4","5","6","7","8","9">>
IsDigit(c) == \E d \in 1..10 : Digits[d] = c
DigitVal(c) == (CHOOSE d \in 1..10 : Digits[d] = c) - 1

\* parseInt(s, 10) of a string of digits
RECURSIVE ParseInt(_)
ParseInt(s) ==
    IF s = <<>> THEN 0 ELSE 10 * ParseInt(SubSeq(s, 1, Len(s) - 1)) + DigitVal(s[Len(s)])

AllDigits(s) == \A i \in 1..Len(s) : IsDigit(s[i])

\* the tail (\d{1,2})(?::(\d{2}))?$ of the pattern: <<hours, minutes>> or <<>>
OffsetFields(r) ==
    LET c == IndexOf(r, ":")
        h == IF c = 0 THEN r ELSE SubSeq(r, 1, c - 1)
        m == IF c = 0 THEN <<>> ELSE SubSeq(r, c + 1, Len(r))
    IN  IF /\ Len(h) \in 1..2
           /\ AllDigits(h)
           /\ (c = 0 \/ (Len(m) = 2 /\ AllDigits(m)))
        THEN <<ParseInt(h), IF c = 0 THEN 0 ELSE ParseInt(m)>>
        ELSE <<>>

\* the parser with the sign applied to the hours only
parseOffsetQuery_SignOnHours(q) ==
    IF Len(q) < 3 \/ SubSeq(q, 1, 3) \notin {<<"u","t","c">>, <<"g","m","t">>}
    THEN <<>>
    ELSE LET r0   == TrimStart(SubSeq(q, 4, Len(q)))
             sgn  == IF r0 # <<>> /\ r0[1] \in {"+", "-"} THEN <<r0[1]>> ELSE <<>>
             r1   == TrimStart(IF sgn = <<>> THEN r0 ELSE Tail(r0))
             f    == OffsetFields(r1)
             sign == IF sgn = <<"-">> THEN -1 ELSE 1
         IN  IF f # <<>> THEN <<sign * (f[1] * 60) + f[2]>>
             ELSE IF Len(q) = 3 THEN <<0>>
             ELSE <<>>

\* the parser with the word utc / gmt optional
parseOffsetQuery_OptionalWord(q) ==
    LET worded == Len(q) >= 3 /\ SubSeq(q, 1, 3) \in {<<"u","t","c">>, <<"g","m","t">>}
        r0   == TrimStart(IF worded THEN SubSeq(q, 4, Len(q)) ELSE q)
        sgn  == IF r0 # <<>> /\ r0[1] \in {"+", "-"} THEN <<r0[1]>> ELSE <<>>
        r1   == TrimStart(IF sgn = <<>> THEN r0 ELSE Tail(r0))
        f    == OffsetFields(r1)
        sign == IF sgn = <<"-">> THEN -1 ELSE 1
    IN  IF f # <<>> THEN <<sign * (f[1] * 60 + f[2])>>
        ELSE IF worded /\ Len(q) = 3 THEN <<0>>
        ELSE <<>>

\* the parser with a minute field of one or two digits
parseOffsetQuery_LooseMinutes(q) ==
    IF Len(q) < 3 \/ SubSeq(q, 1, 3) \notin {<<"u","t","c">>, <<"g","m","t">>}
    THEN <<>>
    ELSE LET r0   == TrimStart(SubSeq(q, 4, Len(q)))
             sgn  == IF r0 # <<>> /\ r0[1] \in {"+", "-"} THEN <<r0[1]>> ELSE <<>>
             r1   == TrimStart(IF sgn = <<>> THEN r0 ELSE Tail(r0))
             c    == IndexOf(r1, ":")
             h    == IF c = 0 THEN r1 ELSE SubSeq(r1, 1, c - 1)
             m    == IF c = 0 THEN <<>> ELSE SubSeq(r1, c + 1, Len(r1))
             sign == IF sgn = <<"-">> THEN -1 ELSE 1
         IN  IF Len(h) \in 1..2 /\ AllDigits(h) /\ (c = 0 \/ (Len(m) \in 1..2 /\ AllDigits(m)))
             THEN <<sign * (ParseInt(h) * 60 + ParseInt(m))>>
             ELSE IF Len(q) = 3 THEN <<0>>
             ELSE <<>>

\* q.match(/^(?:utc|gmt)\s*([+-])?\s*(\d{1,2})(?::(\d{2}))?$/), then the bare
\* "utc" / "gmt"; <<n>> is the number n, <<>> is null
parseOffsetQuery(q) ==
    IF Len(q) < 3 \/ SubSeq(q, 1, 3) \notin {<<"u","t","c">>, <<"g","m","t">>}
    THEN <<>>
    ELSE LET r0   == TrimStart(SubSeq(q, 4, Len(q)))
             sgn  == IF r0 # <<>> /\ r0[1] \in {"+", "-"} THEN <<r0[1]>> ELSE <<>>
             r1   == TrimStart(IF sgn = <<>> THEN r0 ELSE Tail(r0))
             f    == OffsetFields(r1)
             sign == IF sgn = <<"-">> THEN -1 ELSE 1
         IN  IF f # <<>> THEN <<sign * (f[1] * 60 + f[2])>>
             ELSE IF Len(q) = 3 THEN <<0>>
             ELSE <<>>

\* the countries of a list in first-seen order (the keys of the Map)
RECURSIVE CountryOrder(_, _)
CountryOrder(cs, seen) ==
    IF cs = <<>> THEN seen
    ELSE CountryOrder(Tail(cs),
                      IF \E i \in 1..Len(seen) : seen[i] = cs[1].country
                      THEN seen ELSE Append(seen, cs[1].country))

\* a grouping that opens a new group whenever the country changes
RECURSIVE groupByCountry_Runs(_)
groupByCountry_Runs(cs) ==
    IF cs = <<>> THEN <<>>
    ELSE LET rest == groupByCountry_Runs(Tail(cs))
         IN  IF rest # <<>> /\ rest[1].country = cs[1].country
             THEN <<[country |-> cs[1].country, cities |-> <<cs[1]>> \o rest[1].cities]>>
                  \o Tail(rest)
             ELSE <<[country |-> cs[1].country, cities |-> <<cs[1]>>]>> \o rest

groupByCountry(cs) ==
    LET keys == CountryOrder(cs, <<>>)
    IN  [g \in 1..Len(keys) |->
            [country |-> keys[g],
             cities  |-> SelectSeq(cs, LAMBDA c : c.country = keys[g])]]

\* grouped.flatMap((g) => g.cities)
RECURSIVE FlatMapCities(_)
FlatMapCities(groups) ==
    IF groups = <<>> THEN <<>> ELSE groups[1].cities \o FlatMapCities(Tail(groups))

\* the cap applied to the city matches only
Combined_CapCityMatches(cityMatches, countryMatches) ==
    Slice(cityMatches, MaxResults) \o countryMatches

\* [...cityMatches, ...countryMatches].slice(0, 12)
Combined(cityMatches, countryMatches) ==
    Slice(cityMatches \o countryMatches, MaxResults)

\* the cities whose zone is at the offset at the instant, cut to 12
OffsetMatched_SliceFirst(catalog, offsetMinutes, at) ==
    SelectSeq(Slice(catalog, MaxResults), LAMBDA c : ZoneOffset(c.tz, at) = offsetMinutes)

OffsetMatched(catalog, offsetMinutes, at) ==
    Slice(SelectSeq(catalog, LAMBDA c : ZoneOffset(c.tz, at) = offsetMinutes), MaxResults)

\* the cities of the country matches: those not seen among the name matches
CountryMatches_KeepSeen(catalog, q, cityMatches) ==
    SelectSeq(catalog, LAMBDA c : Includes(ToLowerCase(Chars[c.country]), q))

CountryMatches(catalog, q, cityMatches) ==
    SelectSeq(catalog, LAMBDA c : /\ ~HasName(cityMatches, c.name)
                                  /\ Includes(ToLowerCase(Chars[c.country]), q))

\* showGroups of a free-text result
ShowGroups_CombinedOnly(combined, countryMatches) ==
    \/ \E i \in 1..Len(combined) : combined[i] \in Range(countryMatches)
    \/ Cardinality({combined[i].country : i \in 1..Len(combined)}) > 1

ShowGroups(combined, countryMatches) ==
    LET hasCountryMatches == Len(countryMatches) > 0
        multipleCountries ==
            Cardinality({combined[i].country : i \in 1..Len(combined)}) > 1
    IN  hasCountryMatches \/ multipleCountries

\* the useMemo over [query]
SearchResults(catalog, rawQuery, at) ==
    LET q == ToLowerCase(Trim(rawQuery))
    IN  IF Len(q) = 0
        THEN [results |-> <<>>, grouped |-> <<>>, showGroups |-> FALSE]
        ELSE
        LET offsetMinutes == parseOffsetQuery(q)
        IN  IF offsetMinutes # <<>>
            THEN LET matched == OffsetMatched(catalog, offsetMinutes, at)
                 IN  [results |-> matched, grouped |-> groupByCountry(matched),
                      showGroups |-> TRUE]
            ELSE
            LET cityMatches == SelectSeq(catalog,
                                   LAMBDA c : Includes(ToLowerCase(Chars[c.name]), q))
                countryMatches == CountryMatches(catalog, q, cityMatches)
                combined == Combined(cityMatches, countryMatches)
            IN  [results |-> combined, grouped |-> groupByCountry(combined),
                 showGroups |-> ShowGroups(combined, countryMatches)]

\* the results memo of the earlier version of CitySearch
MaxNameResultsEarlier == 8

SearchResultsEarlier(catalog, rawQuery, at) ==
    LET q == ToLowerCase(Trim(rawQuery))
    IN  IF Len(q) = 0 THEN <<>>
        ELSE LET offsetMinutes == parseOffsetQuery(q)
             IN  IF offsetMinutes # <<>>
                 THEN Slice(SelectSeq(catalog,
                                LAMBDA c : ZoneOffset(c.tz, at) = offsetMinutes),
                            MaxResults)
                 ELSE Slice(SelectSeq(catalog,
                                LAMBDA c : Includes(ToLowerCase(Chars[c.name]), q)),
                            MaxNameResultsEarlier)

\* the flatResults memo: what the keyboard walks through
FlatResults(r) == IF ~r.showGroups THEN r.results ELSE FlatMapCities(r.grouped)

----------------------------------------------------------------------------
(* TimezoneExplorer: the pure parts of its effects and handlers *)

MaxPinned == 4

DefaultHomeTz == <<"E","u","r","o","p","e","/","S","a","r","a","j","e","v","o">>
UTC           == <<"U","T","C">>

Compare == <<"c","o","m","p","a","r","e">>
Home    == <<"h","o","m","e">>

\* CITIES.find((c) => c.name === name), for the text name: <<city>> or <<>>
Find(catalog, name) ==
    IF \E i \in 1..Len(catalog) : Chars[catalog[i].name] = name
    THEN <<catalog[CHOOSE i \in 1..Len(catalog) :
                /\ Chars[catalog[i].name] = name
                /\ \A j \in 1..(i - 1) : Chars[catalog[j].name] # name]>>
    ELSE <<>>

\* names.map((name) => CITIES.find(...)).filter(Boolean)
RECURSIVE FoundCities(_, _)
FoundCities(catalog, names) ==
    IF names = <<>> THEN <<>>
    ELSE Find(catalog, names[1]) \o FoundCities(catalog, Tail(names))

\* the compare branch with the names cut to 4 before they are looked up
MountPinned_SliceNames(catalog, params, prev) ==
    LET compareParam == ParamsGet(params, Compare)
    IN  IF compareParam = <<>> \/ compareParam[1] = <<>> THEN prev
        ELSE LET split == Split(compareParam[1], ",")
                 names == [i \in 1..Len(split) |-> Trim(split[i])]
                 found == FoundCities(catalog, Slice(names, MaxPinned))
             IN  IF Len(found) > 0 THEN found ELSE prev

\* the compare branch of the mount effect: the value pinnedCities has after it
MountPinned(catalog, params, prev) ==
    LET compareParam == ParamsGet(params, Compare)
    IN  IF compareParam = <<>> \/ compareParam[1] = <<>> THEN prev
        ELSE LET split == Split(compareParam[1], ",")
                 names == [i \in 1..Len(split) |-> Trim(split[i])]
                 found == FoundCities(catalog, names)
             IN  IF Len(found) > 0 THEN Slice(found, MaxPinned) ELSE prev

\* the home branch of the mount effect; browserTz is what
\* Intl.DateTimeFormat().resolvedOptions().timeZone gave (<<>>: nothing, or a throw)
MountHomeTz(params, browserTz, prev) ==
    LET homeParam == ParamsGet(params, Home)
    IN  IF homeParam # <<>> /\ homeParam[1] # <<>> THEN homeParam[1]
        ELSE IF browserTz # <<>> THEN browserTz
        ELSE prev

\* the string the URL sync effect hands to history.replaceState, after the "?"
UrlQuery(pinned, home) ==
    LET names   == [i \in 1..Len(pinned) |-> ReplaceSpaces(Chars[pinned[i].name])]
        compare == IF Len(pinned) > 0
                   THEN << Compare \o <<"=">> \o Join(names, <<",">>) >>
                   ELSE <<>>
        parts   == compare \o << Home \o <<"=">> \o home >>
    IN  Join(parts, <<"&">>)

\* the updater with a capacity check that is off by one
handleCityPin_OffByOne(prev, city) ==
    IF HasName(prev, city.name)
    THEN SelectSeq(prev, LAMBDA p : p.name # city.name)
    ELSE IF Len(prev) > MaxPinned THEN prev
    ELSE Append(prev, city)

\* the updater evicting the oldest pin of a full set
handleCityPin_EvictOldest(prev, city) ==
    IF HasName(prev, city.name)
    THEN SelectSeq(prev, LAMBDA p : p.name # city.name)
    ELSE IF Len(prev) >= MaxPinned THEN Append(Tail(prev), city)
    ELSE Append(prev, city)

\* the updater handleCityPin gives setPinnedCities
handleCityPin(prev, city) ==
    IF HasName(prev, city.name)
    THEN LET exists == CHOOSE i \in 1..Len(prev) :
                           /\ prev[i].name = city.name
                           /\ \A j \in 1..(i - 1) : prev[j].name # city.name
         IN  SubSeq(prev, 1, exists - 1) \o SubSeq(prev, exists + 1, Len(prev))
    ELSE IF Len(prev) >= MaxPinned THEN prev
    ELSE Append(prev, city)

\* the updater handleCityPin gives setHiddenCities
unhideCity(prev, city) == prev \ {city.name}

\* the visibleCities memo
visibleCities(catalog, pinned, highlighted, hidden) ==
    SelectSeq(catalog, LAMBDA c :
        \/ HasName(highlighted, c.name)
        \/ HasName(pinned, c.name)
        \/ (c.name \notin hidden /\ c.name \in FEATURED_CITY_NAMES))

----------------------------------------------------------------------------
(* The inputs of the controller's runs *)

Atlantis == <<"A","t","l","a","n","t","i","s">>

\* the names a compare parameter is made of: a catalog name, one with an
\* encoded space and padding, and one the catalog does not have
CompareTokens == {Chars["Tokyo"], <<" ">> \o ReplaceSpaces(Chars["New York"]), Atlantis}

HomeTokens == { <<>>, Home \o <<"=","E","t","c","/","G","M","T","%","2","B","5">> }

RECURSIVE TokenLists(_)
TokenLists(n) ==
    IF n = 0 THEN { <<>> }
    ELSE LET shorter == TokenLists(n - 1)
         IN  shorter \cup {Append(l, t) : l \in {x \in shorter : Len(x) = n - 1},
                                          t \in CompareTokens}

Searches(homes) ==
    { Join((IF l = <<>> THEN <<>> ELSE << Compare \o <<"=">> \o Join(l, <<",">>) >>)
           \o (IF h = <<>> THEN <<>> ELSE <<h>>), <<"&">>)
      : l \in TokenLists(MaxNames), h \in homes }

\* the URLs a run starts on: without a home parameter, and with or without one
InitialSearches == Searches({ <<>> })
SharedSearches  == Searches(HomeTokens)

\* what Intl reports as the browser's zone; <<>>: nothing usable
BrowserZones == {UTC}

\* the zones picked in HomeTimezonePicker
PickerZones == {UTC, DefaultHomeTz}

\* what is typed into the search box during the controller's runs
SearchQueries == {<<"o">>, <<"u","t","c","+","1">>}
AnyQuery == SearchQueries \cup { <<>> }

\* the results memo of CitySearch on the controller's catalog, at instant 0
CityMemo == [q \in AnyQuery |-> SearchResults(CITIES, q, 0)]
CityResults == [q \in AnyQuery |-> CityMemo[q].results]

----------------------------------------------------------------------------
(* The state machine.  A handler below states what the handler's own code    *)
(* does; it leaves renderedPinned, highlightedCities, search and pending to  *)
(* what follows it: either the commit (the re-render that hands the new      *)
(* pinnedCities to the handlers, CitySearch's highlight effect and the URL   *)
(* sync effect), or nothing yet.                                             *)

\* the pre-paint script of layout.tsx: the class "dark" is removed when the
\* stored theme is "light" and added otherwise
PrePaint(stored) == stored # <<"light">>

\* the part of a newly loaded page the theme, the share button and the dismiss
\* timer keep: the projection's blind spots, and what localStorage holds
FreshPage(blindSpots, stores) ==
    /\ unmapped \in blindSpots
    /\ storedTheme \in stores
    /\ darkClass = PrePaint(storedTheme)
    /\ theme = "dark"
    /\ copied = FALSE
    /\ copiedTimers = 0
    /\ lastShare = "none"
    /\ tooltipTime = NaN
    /\ dismissPending = FALSE
    /\ orphanTimers = 0

\* the state after construction: the useState initial values, on some URL
ConstructedWith(catalogs, searches, instants, blindSpots, stores) ==
    /\ FreshPage(blindSpots, stores)
    /\ searchCatalog \in catalogs
    /\ clock \in instants
    /\ now = <<>>
    /\ mounted = FALSE
    /\ search \in searches
    /\ homeTz = DefaultHomeTz
    /\ pinnedCities = <<>>
    /\ highlightedCities = <<>>
    /\ hoveredCity = <<>>
    /\ tooltip = <<>>
    /\ hiddenCities = {}
    /\ hoverDismissTimer = FALSE
    /\ renderedPinned = <<>>
    /\ query = <<>>
    /\ open = FALSE
    /\ activeIndex = -1
    /\ pending = 0
    /\ lastPin = "none"

\* the page with a projection that maps every city, and an empty localStorage
ConstructedAt(catalogs, searches, instants) ==
    ConstructedWith(catalogs, searches, instants, {{}}, {<<>>})

\* the page constructed at the first instant of the model's calendar
Constructed(catalogs, searches) == ConstructedAt(catalogs, searches, {0})

Init == Constructed({CITIES}, InitialSearches)

\* the URL sync effect with the dependencies [pinnedCities, mounted] only
UrlSync_PinsOnly ==
    IF pending = 0 /\ mounted' = mounted /\ pinnedCities' = pinnedCities
    THEN search' = search
    ELSE \E url \in {UrlQuery(pinnedCities', homeTz')} :
            search' = IF mounted' THEN LocationSearch(url) ELSE search

\* the URL sync effect, with its dependencies [pinnedCities, homeTz, mounted]:
\* it runs when one of them differs from the last render's, and writes when mounted
UrlSync ==
    IF pending = 0 /\ mounted' = mounted /\ pinnedCities' = pinnedCities /\ homeTz' = homeTz
    THEN search' = search
    ELSE \E url \in {UrlQuery(pinnedCities', homeTz')} :
            search' = IF mounted' THEN LocationSearch(url) ELSE search

\* the results memo of the search box
Results(catalog, q, at) ==
    IF catalog = CITIES /\ q \in AnyQuery /\ at = 0 THEN CityMemo[q]
    ELSE SearchResults(catalog, q, at)

\* the theme sync effect without its test of mounted
ThemeSync_Unguarded ==
    IF ~(pending = 0 /\ mounted' = mounted /\ theme' = theme)
    THEN /\ darkClass' = (theme' = "dark")
         /\ storedTheme' = <<theme'>>
    ELSE /\ darkClass' = darkClass
         /\ storedTheme' = storedTheme

\* the theme sync effect, with its dependencies [theme, mounted]: it runs when
\* one of them differs from the last render's, and writes when mounted; the
\* first render of a newly loaded document follows its pre-paint script
ThemeSync ==
    IF mounted' /\ ~(pending = 0 /\ mounted' = mounted /\ theme' = theme)
    THEN /\ darkClass' = (theme' = "dark")
         /\ storedTheme' = <<theme'>>
    ELSE /\ darkClass' = IF mounted /\ ~mounted' THEN PrePaint(storedTheme) ELSE darkClass
         /\ storedTheme' = storedTheme

\* the commit: the props of the next render, onHighlight(results), the URL
\* sync effect and the theme sync effect
Commit ==
    /\ renderedPinned' = pinnedCities'
    /\ ThemeSync
    /\ highlightedCities' = IF pending = 0 /\ query' = query THEN highlightedCities
                            ELSE Results(searchCatalog', query', clock').results
    /\ UrlSync
    /\ pending' = 0

\* no render yet: the handlers keep the values of the last render
Defer ==
    /\ pending' = pending + 1
    /\ UNCHANGED <<renderedPinned, highlightedCities, search, storeVars>>

\* how a call handleCityPin(city) on the pin set prev ends
PinCase(prev, city) ==
    IF ~HasName(prev, city.name) /\ Len(prev) >= MaxPinned THEN "rejected"
    ELSE "applied"

\* the mount effect
MountEffect(browserTz) ==
    /\ ~mounted
    /\ mounted' = TRUE
    /\ \E params \in {URLSearchParams(search)} :
           /\ pinnedCities' = MountPinned(CITIES, params, pinnedCities)
           /\ homeTz' = MountHomeTz(params, browserTz, homeTz)
    /\ now' = <<clock>>
    /\ theme' = IF storedTheme \in {<<"light">>, <<"dark">>} THEN storedTheme[1] ELSE theme
    /\ lastPin' = "none"
    /\ UNCHANGED <<searchCatalog, clock, hiddenCities, hoverVars, searchBoxVars, unmapped,
                   copied, copiedTimers, lastShare>>

\* the pair of updates handleCityPin makes
CityPin(city) ==
    /\ pinnedCities' = handleCityPin(pinnedCities, city)
    /\ hiddenCities' = unhideCity(hiddenCities, city)
    /\ lastPin' = PinCase(pinnedCities, city)

\* WorldMap's points with a point for every city, mapped or not
cityPoints_Unfiltered(cities) == cities

\* WorldMap's cityPoints: the cities the projection gives a point for
cityPoints(cities) == SelectSeq(cities, LAMBDA c : c.name \notin unmapped)

\* the dots WorldMap draws: visibleCities, with the results of the query that
\* is in the search box (q) highlighted
Dots(q) == cityPoints(visibleCities(CITIES, renderedPinned, CityResults[q], hiddenCities))

\* WorldMap: onClick of a city dot
OnCityClick(city) ==
    /\ mounted
    /\ \E q \in AnyQuery : city \in Range(Dots(q))
    /\ CityPin(city)
    /\ UNCHANGED <<searchCatalog, timeVars, pageVars, mounted, homeTz, hoverVars, searchBoxVars>>

\* compare card: onClick of its remove button
OnCardRemove(city) ==
    /\ mounted
    /\ city \in Range(renderedPinned)
    /\ CityPin(city)
    /\ UNCHANGED <<searchCatalog, timeVars, pageVars, mounted, homeTz, hoverVars, searchBoxVars>>

\* CitySearch.handleSelect, with the pinnedCities prop of the last render
HandleSelect(city) ==
    /\ mounted
    /\ IF ~HasName(renderedPinned, city.name)
       THEN CityPin(city)
       ELSE UNCHANGED <<pinnedCities, hiddenCities, lastPin>>
    /\ open' = FALSE
    /\ activeIndex' = -1
    /\ UNCHANGED <<searchCatalog, timeVars, pageVars, mounted, homeTz, hoverVars, query>>

\* "Clear all" of the compare panel
ClearAll ==
    /\ mounted
    /\ Len(renderedPinned) > 0
    /\ pinnedCities' = <<>>
    /\ lastPin' = "none"
    /\ UNCHANGED <<searchCatalog, timeVars, pageVars, mounted, homeTz, hiddenCities, hoverVars, searchBoxVars>>

\* HomeTimezonePicker: onChange
SetHomeTz(tz) ==
    /\ mounted
    /\ homeTz' = tz
    /\ UNCHANGED <<searchCatalog, timeVars, pageVars, mounted, pinnedCities, hiddenCities, hoverVars,
                   searchBoxVars, lastPin>>

\* handleCityHover(city, rect): the pointer enters a dot
CityHoverEnter(city) ==
    /\ mounted
    /\ \E q \in AnyQuery : city \in Range(Dots(q))
    /\ hoverDismissTimer' = FALSE
    /\ dismissPending' = IF hoverDismissTimer THEN FALSE ELSE dismissPending
    /\ hoveredCity' = <<city>>
    /\ IF city.name \in unmapped
       THEN UNCHANGED <<tooltip, tooltipTime>>
       ELSE /\ tooltip' = <<city>>
            /\ tooltipTime' = ZoneTime(ZoneOffset(city.tz, now[1]), now[1]).hour
    /\ UNCHANGED orphanTimers
    /\ UNCHANGED <<searchCatalog, timeVars, pageVars, mounted, homeTz, pinnedCities, hiddenCities,
                   searchBoxVars, lastPin>>

\* scheduleDismiss without its clearTimeout
scheduleDismiss_NoClear ==
    /\ mounted
    /\ hoverDismissTimer' = TRUE
    /\ dismissPending' = TRUE
    /\ orphanTimers' = orphanTimers + (IF dismissPending THEN 1 ELSE 0)
    /\ UNCHANGED <<searchCatalog, timeVars, pageVars, mounted, homeTz, pinnedCities, hiddenCities, hoveredCity,
                   tooltip, tooltipTime, searchBoxVars, lastPin>>

\* scheduleDismiss: handleCityHover(null, null), or the tooltip's onMouseLeave
scheduleDismiss ==
    /\ mounted
    /\ hoverDismissTimer' = TRUE
    /\ dismissPending' = TRUE
    /\ UNCHANGED <<searchCatalog, timeVars, pageVars, mounted, homeTz, pinnedCities, hiddenCities, hoveredCity,
                   tooltip, tooltipTime, orphanTimers, searchBoxVars, lastPin>>

\* cancelDismiss forgetting the timer without clearing it
cancelDismiss_NoClear ==
    /\ mounted
    /\ tooltip # <<>>
    /\ hoverDismissTimer' = FALSE
    /\ dismissPending' = FALSE
    /\ orphanTimers' = orphanTimers + (IF dismissPending THEN 1 ELSE 0)
    /\ UNCHANGED <<searchCatalog, timeVars, pageVars, mounted, homeTz, pinnedCities, hiddenCities, hoveredCity,
                   tooltip, tooltipTime, searchBoxVars, lastPin>>

\* cancelDismiss: the tooltip's onMouseEnter
cancelDismiss ==
    /\ mounted
    /\ tooltip # <<>>
    /\ hoverDismissTimer' = FALSE
    /\ dismissPending' = IF hoverDismissTimer THEN FALSE ELSE dismissPending
    /\ UNCHANGED <<searchCatalog, timeVars, pageVars, mounted, homeTz, pinnedCities, hiddenCities, hoveredCity,
                   tooltip, tooltipTime, orphanTimers, searchBoxVars, lastPin>>

\* the 150 ms timeout of scheduleDismiss fires
DismissTimeout ==
    /\ \/ dismissPending /\ dismissPending' = FALSE /\ UNCHANGED orphanTimers
       \/ orphanTimers > 0 /\ orphanTimers' = orphanTimers - 1 /\ UNCHANGED dismissPending
    /\ hoveredCity' = <<>>
    /\ tooltip' = <<>>
    /\ tooltipTime' = NaN
    /\ UNCHANGED <<searchCatalog, timeVars, pageVars, mounted, homeTz, pinnedCities, hiddenCities,
                   hoverDismissTimer, searchBoxVars, lastPin>>

\* tooltip: onClick of its remove button
TooltipRemove ==
    /\ mounted
    /\ tooltip # <<>>
    /\ LET city == tooltip[1]
           isPinned == HasName(renderedPinned, city.name)
       IN  /\ pinnedCities' = IF isPinned THEN handleCityPin(pinnedCities, city)
                              ELSE pinnedCities
           /\ hiddenCities' = (IF isPinned THEN unhideCity(hiddenCities, city)
                               ELSE hiddenCities) \cup {city.name}
           /\ lastPin' = IF isPinned THEN PinCase(pinnedCities, city) ELSE "none"
    /\ tooltip' = <<>>
    /\ tooltipTime' = NaN
    /\ hoveredCity' = <<>>
    /\ UNCHANGED <<searchCatalog, timeVars, pageVars, mounted, homeTz, timerVars, searchBoxVars>>

\* the page is loaded again on the URL it has now
Reload ==
    /\ mounted
    /\ mounted' = FALSE
    /\ homeTz' = DefaultHomeTz
    /\ pinnedCities' = <<>>
    /\ hoveredCity' = <<>>
    /\ tooltip' = <<>>
    /\ hiddenCities' = {}
    /\ hoverDismissTimer' = FALSE
    /\ query' = <<>>
    /\ open' = FALSE
    /\ activeIndex' = -1
    /\ lastPin' = "none"
    /\ now' = <<>>
    /\ tooltipTime' = NaN
    /\ dismissPending' = FALSE
    /\ orphanTimers' = 0
    /\ theme' = "dark"
    /\ copied' = FALSE
    /\ copiedTimers' = 0
    /\ lastShare' = "none"
    /\ UNCHANGED <<searchCatalog, clock, unmapped>>

----------------------------------------------------------------------------
(* Spec: the controller under React's scheduling of user events; the state   *)
(* updates of a handler are rendered, and the effects run, before the next   *)
(* event is handled.  Only the mount effect, itself an effect, is followed   *)
(* by a render of its own.  The search box's state is not kept here: a       *)
(* result is selected, and a dot is highlighted, under some query q.         *)

\* the city is a result of some query
InSomeResults(c) == \E q \in AnyQuery : c \in Range(CityResults[q])

\* the re-render of state updates that wait for one
Rerender ==
    /\ pending > 0
    /\ UNCHANGED <<searchCatalog, timeVars, pageVars, mounted, homeTz, pinnedCities, hiddenCities,
                   hoverVars, searchBoxVars, lastPin>>
    /\ Commit

Mount          == \E b \in BrowserZones : MountEffect(b) /\ Defer
MapClick       == pending = 0 /\ \E c \in Range(CITIES) : OnCityClick(c) /\ Commit
CardRemove     == pending = 0 /\ \E c \in Range(CITIES) : OnCardRemove(c) /\ Commit
SearchSelect   == pending = 0 /\ \E c \in Range(CITIES) : InSomeResults(c) /\ HandleSelect(c) /\ Commit
ClearAllClick  == pending = 0 /\ ClearAll /\ Commit
MarkerEnter    == pending = 0 /\ \E c \in Range(CITIES) : CityHoverEnter(c) /\ Commit
MarkerLeave    == pending = 0 /\ scheduleDismiss /\ Commit
TooltipEnter   == pending = 0 /\ cancelDismiss /\ Commit
TooltipLeave   == pending = 0 /\ tooltip # <<>> /\ scheduleDismiss /\ Commit
DismissFires   == pending = 0 /\ DismissTimeout /\ Commit
TooltipRemoveClick ==
    pending = 0 /\ Cardinality(hiddenCities) < MaxHidden /\ TooltipRemove /\ Commit

Next ==
    \/ Mount
    \/ Rerender
    \/ MapClick
    \/ CardRemove
    \/ SearchSelect
    \/ ClearAllClick
    \/ MarkerEnter
    \/ MarkerLeave
    \/ TooltipEnter
    \/ TooltipLeave
    \/ DismissFires
    \/ TooltipRemoveClick

Spec == Init /\ [][Next]_vars

----------------------------------------------------------------------------
(* The pin set: claims C1, C2, C4, C5, C6 and C10 *)

\* the steps in which handleCityPin(c) is called
PinCall(c) ==
    \/ OnCityClick(c)
    \/ OnCardRemove(c)
    \/ (InSomeResults(c) /\ HandleSelect(c) /\ ~HasName(renderedPinned, c.name))

\* C1: in every reachable state the pinned set holds at most 4 cities
C1_AtMostFourPinned == Len(pinnedCities) <= 4

\* a fifth city was offered to a full set
C1_Witness == mounted /\ pending = 0 /\ Len(pinnedCities) = 4 /\ lastPin = "rejected"

\* C2: in every reachable state no two pinned cities have the same name
C2_NoDuplicateNames ==
    \A i, j \in 1..Len(pinnedCities) :
        i # j => pinnedCities[i].name # pinnedCities[j].name

\* C4: with 4 cities pinned, pin(city) of a city that is not in the set leaves
\* the pinned set as it is: same members, same order, length 4 (no step that
\* changes the full set is a pin of a city outside it)
C4_FifthPinLeavesSet ==
    [][\A c \in Range(CITIES) :
          (Len(pinnedCities) = 4 /\ ~HasName(pinnedCities, c.name)
             /\ pinnedCities' # pinnedCities) => ~PinCall(c)]_vars

\* four distinct cities are pinned and the fifth has just been rejected
C4_Witness ==
    /\ lastPin = "rejected"
    /\ Cardinality(Range(Names(pinnedCities))) = 4
    /\ \E c \in Range(CITIES) : ~HasName(pinnedCities, c.name)

\* C5: a pin attempt rejected at capacity changes nothing of the view state:
\* the pinned set, the hidden-city set, the home timezone, the hover state
C5_RejectedPinIsNoOp ==
    [][\A c \in Range(CITIES) :
          (Len(pinnedCities) >= MaxPinned /\ ~HasName(pinnedCities, c.name) /\ PinCall(c))
              => UNCHANGED <<pinnedCities, hiddenCities, homeTz, hoveredCity, tooltip,
                             hoverDismissTimer>>]_vars

\* the reference operator of the toggle path
ToggleRef(prev, city) ==
    IF HasName(prev, city.name)
    THEN SelectSeq(prev, LAMBDA p : p.name # city.name)
    ELSE IF Len(prev) < 4 THEN Append(prev, city)
    ELSE prev

\* C6: on the toggle path (map click, compare-card remove) pin(city) gives the
\* set without the city when it is pinned, and the set with the city appended
\* when it is not and fewer than 4 are pinned
C6_ToggleIsReference ==
    [][\A c \in Range(CITIES) :
          ((OnCityClick(c) \/ OnCardRemove(c))
             /\ (HasName(pinnedCities, c.name) \/ Len(pinnedCities) < 4))
              => pinnedCities' = ToggleRef(pinnedCities, c)]_vars

\* the names of the compare parameter of a URL, trimmed
CompareNames(s) ==
    LET value == ParamsGet(URLSearchParams(s), Compare)
        split == IF value = <<>> THEN <<>> ELSE Split(value[1], ",")
    IN  [i \in 1..Len(split) |-> Trim(split[i])]

\* the first k catalog cities named in names, in the order of names
RECURSIVE FirstValid(_, _)
FirstValid(names, k) ==
    IF names = <<>> \/ k = 0 THEN <<>>
    ELSE IF \E c \in Range(CITIES) : Chars[c.name] = names[1]
         THEN <<CHOOSE c \in Range(CITIES) : Chars[c.name] = names[1]>>
              \o FirstValid(Tail(names), k - 1)
         ELSE FirstValid(Tail(names), k)

\* C10: at load the pinned set is the catalog cities named in the compare
\* parameter, in parameter order, unknown names dropped, cut to the first 4
C10_LoadedPins ==
    (mounted /\ pending > 0) =>
        \A names \in {CompareNames(search)} : pinnedCities = FirstValid(names, 4)

\* a load of a URL that names an unknown city first and five valid ones after it
C10_Witness ==
    /\ mounted
    /\ pending > 0
    /\ \E names \in {CompareNames(search)} :
          /\ Len(names) = 6
          /\ names[1] = Atlantis
          /\ \A i \in 2..6 : names[i] # Atlantis
    /\ Len(pinnedCities) = 4

----------------------------------------------------------------------------
(* UrlSpec: the URL the sync effect writes, loaded again.  The initial URLs  *)
(* carry a home parameter too, the home timezone is picked, and the page is  *)
(* reloaded on the URL it has.                                               *)

HomePick   == pending = 0 /\ \E tz \in PickerZones : SetHomeTz(tz) /\ Commit
PageReload == pending = 0 /\ Reload /\ Commit

UrlInit == Constructed({CITIES}, SharedSearches)

UrlNext ==
    \/ Mount
    \/ Rerender
    \/ MapClick
    \/ SearchSelect
    \/ CardRemove
    \/ ClearAllClick
    \/ HomePick
    \/ PageReload

UrlSpec == UrlInit /\ [][UrlNext]_vars

\* C9: loading the URL the sync effect wrote gives the pinned set and the home
\* timezone the application holds
C9_UrlRoundTrip ==
    (mounted /\ pending = 0) =>
        \A params \in {URLSearchParams(search)} :
            /\ MountPinned(CITIES, params, <<>>) = pinnedCities
            /\ \A b \in BrowserZones : MountHomeTz(params, b, DefaultHomeTz) = homeTz

----------------------------------------------------------------------------
(* RenderSpec: events handled before the re-render of earlier updates.  Each *)
(* handler is the closure of the last render; up to MaxPending handlers run  *)
(* between two renders.                                                      *)

\* most handlers run between two renders
MaxPending == 2

Waiting == pending < MaxPending

EarlyMapClick   == Waiting /\ \E c \in Range(CITIES) : OnCityClick(c) /\ Defer
EarlyCardRemove == Waiting /\ \E c \in Range(CITIES) : OnCardRemove(c) /\ Defer
EarlySelect     ==
    Waiting /\ \E c \in Range(CITIES) : InSomeResults(c) /\ HandleSelect(c) /\ Defer
EarlyClearAll   == Waiting /\ ClearAll /\ Defer

RenderNext ==
    \/ Mount
    \/ Rerender
    \/ EarlyMapClick
    \/ EarlyCardRemove
    \/ EarlySelect
    \/ EarlyClearAll

RenderSpec == Init /\ [][RenderNext]_vars

\* C3: a search selection of a city that is pinned leaves the pinned set as it
\* is, whichever render's pinnedCities the selection is handled with
C3_SelectNeverUnpins ==
    [][\A c \in Range(CITIES) :
          (HasName(pinnedCities, c.name) /\ InSomeResults(c) /\ HandleSelect(c))
              => pinnedCities' = pinnedCities]_vars

----------------------------------------------------------------------------
(* SearchSpec: the search box over the sample catalogs.  The query is typed, *)
(* cleared, and the results are walked with the arrow keys.                  *)

\* what is typed: padding and capitals around a letter of names and of a
\* country, letters of a country only, two offset queries, no match
TypedQueries ==
    { <<" ","A">>, <<"p","e">>, <<"u","t","c","+","1">>, <<"G","M","T">>, <<"z">>, <<" ">> }

controllerVars ==
    <<searchCatalog, mounted, homeTz, pinnedCities, hiddenCities, hoverVars, lastPin,
      timeVars, pageVars>>

\* input: onChange
QueryChange(text) ==
    /\ query' = text
    /\ open' = TRUE
    /\ activeIndex' = -1
    /\ UNCHANGED controllerVars

\* clearSearch, from the Escape key or the clear button
clearSearch ==
    /\ query' = <<>>
    /\ open' = FALSE
    /\ activeIndex' = -1
    /\ UNCHANGED controllerVars

\* handleKeyDown: ArrowDown
ArrowDown ==
    /\ \E r \in {Results(searchCatalog, query, clock)} :
          activeIndex' = Min(activeIndex + 1, Len(FlatResults(r)) - 1)
    /\ UNCHANGED <<query, open>>
    /\ UNCHANGED controllerVars

\* handleKeyDown: ArrowUp
ArrowUp ==
    /\ activeIndex' = Max(activeIndex - 1, 0)
    /\ UNCHANGED <<query, open>>
    /\ UNCHANGED controllerVars

TypeQuery    == \E text \in TypedQueries : QueryChange(text) /\ Commit
EscapeKey    == query # <<>> /\ clearSearch /\ Commit
ArrowDownKey == ArrowDown /\ Commit
ArrowUpKey   == ArrowUp /\ Commit

SearchInit == Constructed(Catalogs, { <<>> })

SearchNext ==
    \/ TypeQuery
    \/ EscapeKey
    \/ ArrowDownKey
    \/ ArrowUpKey

SearchSpec == SearchInit /\ [][SearchNext]_vars

\* each country's cities are next to one another in the list
Adjacent(cs) ==
    \A i, j, k \in 1..Len(cs) :
        (i < j /\ j < k /\ cs[i].country = cs[k].country) => cs[j].country = cs[i].country

\* C7 as stated: the flattened groups are the result list itself
C7_FlattenIsResultList ==
    \A r \in {SearchResults(searchCatalog, query, clock)} : FlatMapCities(r.grouped) = r.results

\* C7: the flattened groups hold the cities of the result list, the countries
\* in first-seen order, each country's cities next to one another and in their
\* result order; they are the result list itself exactly when the result list
\* has each country's cities next to one another, as every list shown without
\* groups has; the keyboard walks the flattened groups in both display modes
C7_FlattenRegroups ==
    \A r \in {SearchResults(searchCatalog, query, clock)} :
        \A flat \in {FlatMapCities(r.grouped)} :
            /\ Len(flat) = Len(r.results)
            /\ Range(flat) = Range(r.results)
            /\ CountryOrder(flat, <<>>) = CountryOrder(r.results, <<>>)
            /\ Adjacent(flat)
            /\ \A c \in Range(r.results) :
                  SelectSeq(flat, LAMBDA x : x.country = c.country)
                      = SelectSeq(r.results, LAMBDA x : x.country = c.country)
            /\ (flat = r.results) <=> Adjacent(r.results)
            /\ ~r.showGroups => flat = r.results
            /\ FlatResults(r) = flat

\* groups are shown and flattening them moves a city
C7_Witness ==
    \E r \in {SearchResults(searchCatalog, query, clock)} :
        /\ r.showGroups
        /\ Len(r.results) > 2
        /\ FlatMapCities(r.grouped) # r.results
        /\ activeIndex >= 0

----------------------------------------------------------------------------
(* ParseSpec: what is typed is read by parseOffsetQuery.  A run starts with  *)
(* a text in the search box whose render is pending; the render computes the *)
(* results memo.                                                             *)

\* longest run of blanks between the parts of a typed offset
MaxGap == 1

Blanks(n) == [i \in 1..n |-> " "]

\* the text of a number below 100, in two digits when padded
NumberText(n, padded) ==
    IF n < 10 /\ ~padded THEN <<Digits[n + 1]>>
    ELSE <<Digits[(n \div 10) + 1], Digits[(n % 10) + 1]>>

OffsetWords == { <<"u","t","c">>, <<"g","m","t">> }
SignTexts   == { <<>>, <<"+">>, <<"-">> }
HourTexts   == {NumberText(h, p) : h \in 0..99, p \in BOOLEAN}
MinuteTexts == { <<>> } \cup {<<":">> \o NumberText(m, TRUE) : m \in 0..99}

\* every offset with every hour and minute field, written without blanks
DenseOffsets ==
    {w \o sg \o h \o m : w \in OffsetWords, sg \in SignTexts, h \in HourTexts,
                         m \in MinuteTexts}

\* offsets written with blanks after the word and after the sign
SpacedOffsets ==
    {w \o Blanks(g1) \o sg \o Blanks(g2) \o h \o m :
        w \in OffsetWords, g1 \in 0..MaxGap, sg \in SignTexts, g2 \in 0..MaxGap,
        h \in {<<"5">>, <<"1","2">>}, m \in { <<>>, <<":","3","0">> }}

\* offsets typed in capitals and with blanks around them
PaddedOffsets ==
    { <<"U","T","C","+","1">>, <<" ","g","M","t","-","5",":","3","0"," ">>,
      <<"U","T","C">>, <<" ","G","m","t"," ">> }

BareWords == OffsetWords

OffsetInputs == DenseOffsets \cup SpacedOffsets \cup BareWords

\* well-formed offsets that lack the word utc / gmt
WordlessOffsets ==
    {sg \o h \o m : sg \in SignTexts, h \in {<<"8">>, <<"5">>, <<"1","2">>},
                    m \in { <<>>, <<":","3","0">> }}

\* texts that are no offset: a bare sign, malformed minutes, too many hour
\* digits, two signs, text after the offset, blanks in the wrong place, words
MalformedInputs ==
    {w \o sg : w \in OffsetWords, sg \in {<<"+">>, <<"-">>, <<" ","+">>}}
    \cup {w \o sg \o h \o m :
            w \in OffsetWords, sg \in SignTexts, h \in {<<"5">>, <<"1","2">>},
            m \in { <<":">>, <<":","3">>, <<":","3","0","0">>, <<":","3","x">>,
                    <<" ",":","3","0">>, <<":"," ","3","0">>, <<"a">>, <<" ","5">>,
                    <<":","3","0",":","0","0">> }}
    \cup {w \o sg \o h : w \in OffsetWords, sg \in SignTexts,
                         h \in {<<"1","2","3">>, <<"0","0","5">>, <<"x">>}}
    \cup {w \o sg \o <<"+","1">> : w \in OffsetWords, sg \in {<<"+">>, <<"-">>}}
    \cup { <<"b","a","n","a","n","a">>, <<"u","t">>, <<"u","t","c","x">>,
           <<"u"," ","t","c","+","1">>, <<"u","t","c",":","3","0">>, <<"o">>,
           <<"x","u","t","c","+","1">>, <<"u","t","c","u","t","c">> }

ParseInputs == OffsetInputs \cup PaddedOffsets \cup WordlessOffsets \cup MalformedInputs

\* the search box holds a text whose render is pending
TypedAt(catalogs, texts, instants) ==
    /\ FreshPage({{}}, {<<>>})
    /\ searchCatalog \in catalogs
    /\ clock \in instants
    /\ now = <<>>
    /\ mounted = FALSE
    /\ search = <<>>
    /\ homeTz = DefaultHomeTz
    /\ pinnedCities = <<>>
    /\ highlightedCities = <<>>
    /\ hoveredCity = <<>>
    /\ tooltip = <<>>
    /\ hiddenCities = {}
    /\ hoverDismissTimer = FALSE
    /\ renderedPinned = <<>>
    /\ query \in texts
    /\ open = TRUE
    /\ activeIndex = -1
    /\ pending = 1
    /\ lastPin = "none"

Typed(catalogs, texts) == TypedAt(catalogs, texts, {0})

ParseInit == Typed({CITIES}, ParseInputs)

ParseNext ==
    \/ Rerender
    \/ EscapeKey

ParseSpec == ParseInit /\ [][ParseNext]_vars

\* the number a field of one or two digits stands for
NumberOf(text) == CHOOSE n \in 0..99 : text \in {NumberText(n, TRUE), NumberText(n, FALSE)}

\* the minutes a well-formed offset text asks for: its fields read one by one
RefMinutes(text) ==
    LET body   == SelectSeq(text, LAMBDA c : c \notin {" ", "u", "t", "c", "g", "m"})
        neg    == body # <<>> /\ body[1] = "-"
        fields == IF body # <<>> /\ body[1] \in {"+", "-"} THEN Tail(body) ELSE body
        colon  == IndexOf(fields, ":")
        hours  == IF colon = 0 THEN fields ELSE SubSeq(fields, 1, colon - 1)
        mins   == IF colon = 0 THEN <<>> ELSE SubSeq(fields, colon + 1, Len(fields))
    IN  IF fields = <<>> THEN 0
        ELSE (IF neg THEN -1 ELSE 1)
               * (NumberOf(hours) * 60 + (IF mins = <<>> THEN 0 ELSE NumberOf(mins)))

\* the result list is the free-text result of the query q on the catalog: its
\* cities match by name or by country, the name matches come first, each part
\* is in catalog order, no match is skipped, and at most 12 are listed
FreeTextResult(catalog, q, result) ==
    LET byName(i)    == Includes(ToLowerCase(Chars[catalog[i].name]), ToLowerCase(q))
        byCountry(i) == Includes(ToLowerCase(Chars[catalog[i].country]), ToLowerCase(q))
        matches      == {i \in 1..Len(catalog) : byName(i) \/ byCountry(i)}
        rank(i)      == IF byName(i) THEN i ELSE Len(catalog) + i
        at(k)        == CHOOSE i \in 1..Len(catalog) : catalog[i] = result[k]
    IN  /\ Len(result) = Min(12, Cardinality(matches))
        /\ \A k \in 1..Len(result) :
              /\ \E i \in matches : catalog[i] = result[k]
              /\ \A l \in 1..(k - 1) : rank(at(l)) < rank(at(k))
              /\ \A j \in matches :
                    rank(j) < rank(at(k)) => \E l \in 1..(k - 1) : at(l) = j

\* C11: for a text of the offset grammar parseOffsetQuery gives
\* sign * (hours * 60 + minutes), negative only after "-", for every hour field
\* 0..99 and minute field 00..99; the bare word gives 0
C11_SignedMinutes ==
    pending = 0 =>
        /\ query \in OffsetInputs => parseOffsetQuery(query) = <<RefMinutes(query)>>
        /\ query = <<"u","t","c","+","1">> => parseOffsetQuery(query) = <<60>>
        /\ query = <<"g","m","t","-","5",":","3","0">> => parseOffsetQuery(query) = <<-330>>
        /\ query = <<"u","t","c","+","9","9">> => parseOffsetQuery(query) = <<5940>>
        /\ query \in BareWords => parseOffsetQuery(query) = <<0>>

\* a negative offset with minutes, beyond any real zone, has been rendered
C11_Witness ==
    /\ pending = 0
    /\ query = <<"g","m","t","-","9","9",":","9","9">>
    /\ highlightedCities = <<>>

\* C12 as stated: a well-formed offset without the word utc / gmt is parsed
C12_WordIsOptional ==
    (pending = 0 /\ query \in WordlessOffsets)
        => parseOffsetQuery(query) = <<RefMinutes(query)>>

\* C12: the word utc / gmt is part of the grammar: with it a well-formed offset
\* is parsed, without it the text is no offset query and is searched as text
C12_WordIsRequired ==
    pending = 0 =>
        /\ query \in OffsetInputs => parseOffsetQuery(query) # <<>>
        /\ query \in WordlessOffsets =>
              /\ parseOffsetQuery(query) = <<>>
              /\ FreeTextResult(searchCatalog, query, highlightedCities)

\* "+5:30" has been rendered as a text search
C12_Witness ==
    /\ pending = 0
    /\ query = <<"+","5",":","3","0">>
    /\ highlightedCities = <<>>

\* C13: a text outside the offset grammar gives the absent result and is
\* searched as free text
C13_NoMatchIsAbsent ==
    (pending = 0 /\ query \in MalformedInputs) =>
        \A q \in {ToLowerCase(Trim(query))} :
            /\ parseOffsetQuery(q) = <<>>
            /\ FreeTextResult(searchCatalog, q, highlightedCities)

\* a malformed minute field has been rendered, and a word that names cities
C13_Witness ==
    /\ pending = 0
    /\ query = <<"u","t","c","+","5",":","3">>
    /\ highlightedCities = <<>>

----------------------------------------------------------------------------
(* ResultSpec: the results memo on catalogs that hold real zones next to the *)
(* sample cities, at instants before and after the zones' changes to summer  *)
(* time.  A run starts with a text in the search box whose render is         *)
(* pending.                                                                  *)

\* the last instant of the model's calendar
MaxClock == 71

Instants == 0..MaxClock

\* midnight UTC of each day of the calendar
SearchClocks == {at \in Instants : at % 24 = 0}

ResultCatalogs == {CITIES \o c : c \in Catalogs} \cup {c \o CITIES : c \in Catalogs}

\* offset queries: zones of the catalogs in winter and in summer, an offset
\* no zone has, upper case and blanks around the text
OffsetQueries ==
    { <<"u","t","c","+","1">>, <<" ","U","T","C"," ","+","0","2",":","0","0"," ">>,
      <<"g","m","t","-","5">>, <<"G","M","T","-","4">>, <<"g","m","t">>,
      <<"u","t","c","+","9","9">> }

\* free-text queries: by name, by country, by both, upper case, blank, no match
TextQueries ==
    { <<"a">>, <<" ","O"," ">>, <<"p","e">>, <<"m","a","l","t","a">>, <<"b","0">>,
      <<"z">>, <<" ">> }

ResultInit ==
    \/ TypedAt(ResultCatalogs, OffsetQueries, SearchClocks)
    \/ TypedAt(ResultCatalogs, TextQueries, {0})

ResultNext ==
    \/ Rerender
    \/ EscapeKey

ResultSpec == ResultInit /\ [][ResultNext]_vars

\* the result list is the offset result on the catalog: every city of it is
\* at the offset at the instant, the cities are in catalog order, no city at
\* the offset is skipped, and at most 12 are listed
OffsetResult(catalog, minutes, at, result) ==
    LET matches == {i \in 1..Len(catalog) : ZoneOffset(catalog[i].tz, at) = <<minutes>>}
        pos(k)  == CHOOSE i \in 1..Len(catalog) : catalog[i] = result[k]
    IN  /\ Len(result) = Min(12, Cardinality(matches))
        /\ \A k \in 1..Len(result) :
              /\ \E i \in matches : catalog[i] = result[k]
              /\ \A l \in 1..(k - 1) : pos(l) < pos(k)
              /\ \A j \in matches : j < pos(k) => \E l \in 1..(k - 1) : pos(l) = j

C15_FreeTextQueryResult ==
    (pending = 0 /\ query \in TextQueries) =>
        \A q \in {ToLowerCase(Trim(query))} :
            q # <<>> =>
                /\ FreeTextResult(searchCatalog, q, highlightedCities)
                /\ \A k, l \in 1..Len(highlightedCities) :
                      highlightedCities[k].name = highlightedCities[l].name => k = l

\* name matches are followed by country matches, and the list is cut at 12
C15_Witness ==
    /\ pending = 0
    /\ query = <<"a">>
    /\ Len(highlightedCities) = 12
    /\ \E k \in 2..12 :
          /\ Includes(ToLowerCase(Chars[highlightedCities[k - 1].name]), query)
          /\ ~Includes(ToLowerCase(Chars[highlightedCities[k].name]), query)
          /\ Includes(ToLowerCase(Chars[highlightedCities[k].country]), query)
    /\ \E i \in 1..Len(searchCatalog) :
          /\ Includes(ToLowerCase(Chars[searchCatalog[i].country]), query)
          /\ searchCatalog[i] \notin Range(highlightedCities)

\* the city matches the query by its country and not by its name
CountryOnly(c, q) ==
    /\ Includes(ToLowerCase(Chars[c.country]), q)
    /\ ~Includes(ToLowerCase(Chars[c.name]), q)

Countries(cs) == {cs[i].country : i \in 1..Len(cs)}

\* C16 as stated: a free-text result is shown grouped exactly when a country
\* match is in the result or the result spans more than one country
C16_GroupedIffCountryInResult ==
    (pending = 0 /\ query \in TextQueries) =>
        \A q \in {ToLowerCase(Trim(query))}, r \in {SearchResults(searchCatalog, query, clock)} :
            q # <<>> =>
                (r.showGroups <=>
                    \/ \E k \in 1..Len(highlightedCities) : CountryOnly(highlightedCities[k], q)
                    \/ Cardinality(Countries(highlightedCities)) > 1)

\* C16: a free-text result is shown grouped exactly when some city of the
\* catalog matches by country only, listed or cut off, or the listed cities
\* span more than one country; otherwise the list is shown flat in its own
\* order; an empty or blank query gives the empty list, not grouped
C16_GroupedIffCountryMatch ==
    (pending = 0 /\ query \in TextQueries \cup { <<>> }) =>
        \A q \in {ToLowerCase(Trim(query))}, r \in {SearchResults(searchCatalog, query, clock)} :
            /\ r.results = highlightedCities
            /\ q # <<>> =>
                  (r.showGroups <=>
                      \/ \E i \in 1..Len(searchCatalog) : CountryOnly(searchCatalog[i], q)
                      \/ Cardinality(Countries(highlightedCities)) > 1)
            /\ ~r.showGroups => FlatResults(r) = highlightedCities
            /\ q = <<>> => (highlightedCities = <<>> /\ ~r.showGroups)

\* 12 name matches of one country are listed, and the country matches of the
\* catalog are all cut off
C16_Witness ==
    /\ pending = 0
    /\ query = <<"a">>
    /\ Len(highlightedCities) = 12
    /\ Cardinality(Countries(highlightedCities)) = 1
    /\ \A k \in 1..12 : ~CountryOnly(highlightedCities[k], query)
    /\ \E i \in 1..Len(searchCatalog) : CountryOnly(searchCatalog[i], query)
    /\ SearchResults(searchCatalog, query, clock).showGroups

----------------------------------------------------------------------------
(* The derived times.  A JavaScript number is <<n>>, or <<>> for NaN; a      *)
(* luxon DateTime in a zone is the record of its offset and its hour, both   *)
(* NaN when the zone is unknown to luxon: setZone then gives an invalid      *)
(* DateTime and throws nothing.                                              *)

NaNText == <<"N","a","N">>

Abs(n) == IF n >= 0 THEN n ELSE -n

\* Number.prototype.toString of a natural number
RECURSIVE NumberToString(_)
NumberToString(n) ==
    IF n < 10 THEN <<Digits[n + 1]>> ELSE NumberToString(n \div 10) \o <<Digits[(n % 10) + 1]>>

\* String.prototype.padStart
RECURSIVE PadStart(_, _, _)
PadStart(text, len, fill) ==
    IF Len(text) >= len THEN text ELSE PadStart(<<fill>> \o text, len, fill)

\* formatOffset with "+" only above zero
formatOffset_PlusAboveZero(minutes) ==
    IF minutes = NaN THEN <<"U","T","C","-">> \o NaNText \o <<":">> \o NaNText
    ELSE LET sign == IF minutes[1] > 0 THEN "+" ELSE "-"
             abs  == Abs(minutes[1])
             h    == PadStart(NumberToString(abs \div 60), 2, "0")
             m    == PadStart(NumberToString(abs % 60), 2, "0")
         IN  <<"U","T","C",sign>> \o h \o <<":">> \o m

formatOffset(minutes) ==
    IF minutes = NaN THEN <<"U","T","C","-">> \o NaNText \o <<":">> \o NaNText
    ELSE LET sign == IF minutes[1] >= 0 THEN "+" ELSE "-"
             abs  == Abs(minutes[1])
             h    == PadStart(NumberToString(abs \div 60), 2, "0")
             m    == PadStart(NumberToString(abs % 60), 2, "0")
         IN  <<"U","T","C",sign>> \o h \o <<":">> \o m

SameTime == <<"s","a","m","e"," ","t","i","m","e">>

\* formatDiff that always prints the minutes
formatDiff_AlwaysMinutes(minutes) ==
    IF minutes = NaN THEN <<"-">> \o NaNText \o <<"h"," ">> \o NaNText \o <<"m">>
    ELSE IF minutes[1] = 0 THEN SameTime
    ELSE LET sign == IF minutes[1] > 0 THEN "+" ELSE "-"
             abs  == Abs(minutes[1])
         IN  <<sign>> \o NumberToString(abs \div 60) \o <<"h"," ">> \o NumberToString(abs % 60) \o <<"m">>

formatDiff(minutes) ==
    IF minutes = NaN THEN <<"-">> \o NaNText \o <<"h"," ">> \o NaNText \o <<"m">>
    ELSE IF minutes[1] = 0 THEN SameTime
    ELSE LET sign == IF minutes[1] > 0 THEN "+" ELSE "-"
             abs  == Abs(minutes[1])
             h    == abs \div 60
             m    == abs % 60
         IN  IF m = 0 THEN <<sign>> \o NumberToString(h) \o <<"h">>
             ELSE <<sign>> \o NumberToString(h) \o <<"h"," ">> \o NumberToString(m) \o <<"m">>

EtcGMTPlus5 == <<"E","t","c","/","G","M","T","+","5">>

\* the IANA zone a home zone text names: <<zone>>, or <<>> for none
IanaZone(text) ==
    CASE text = DefaultHomeTz -> <<"Europe/Sarajevo">>
      [] text = UTC           -> <<"UTC">>
      [] text = EtcGMTPlus5   -> <<"Etc/GMT+5">>
      [] OTHER                -> <<>>

\* luxon's fixed-offset zone names, /^utc(?:([+-]\d{1,2})(?::(\d{2}))?)?$/i:
\* the offset of the name, or NaN when the text is not such a name
FixedOffset(text) ==
    LET s == ToLowerCase(text)
    IN  IF Len(s) < 3 \/ SubSeq(s, 1, 3) # <<"u","t","c">> THEN NaN
        ELSE IF Len(s) = 3 THEN <<0>>
        ELSE IF s[4] \notin {"+", "-"} THEN NaN
        ELSE LET f == OffsetFields(SubSeq(s, 5, Len(s)))
             IN  IF f = <<>> THEN NaN
                 ELSE <<(IF s[4] = "-" THEN -1 ELSE 1) * (f[1] * 60 + f[2])>>

\* DateTime.fromMillis(at).setZone(homeTz).offset
HomeOffset(text, at) ==
    IF FixedOffset(text) # NaN THEN FixedOffset(text)
    ELSE IF IanaZone(text) # <<>> THEN ZoneOffset(IanaZone(text)[1], at)
    ELSE NaN

\* zoneTime.offset - homeTime.offset
Minus(a, b) == IF a = NaN \/ b = NaN THEN NaN ELSE <<a[1] - b[1]>>

\* the day/night flag with 20 h counted as day
isDaytime_UntilTwenty(h) == h # NaN /\ h[1] >= 6 /\ h[1] <= 20

isDaytime(h) == h # NaN /\ h[1] >= 6 /\ h[1] < 20

\* the hoveredDerived memo: null, or the derived times of the hovered city
hoveredDerived ==
    IF now = <<>> \/ hoveredCity = <<>> THEN <<>>
    ELSE LET zoneTime    == ZoneTime(ZoneOffset(hoveredCity[1].tz, now[1]), now[1])
             homeTime    == ZoneTime(HomeOffset(homeTz, now[1]), now[1])
             diffMinutes == Minus(zoneTime.offset, homeTime.offset)
         IN  << [zoneTime   |-> zoneTime,
                 homeTime   |-> homeTime,
                 utcOffset  |-> formatOffset(zoneTime.offset),
                 homeOffset |-> formatOffset(homeTime.offset),
                 diff       |-> formatDiff(diffMinutes)] >>

\* the pinnedDerived memo: an entry for each pinned city (the catch of the
\* flatMap is not reached)
pinnedDerived ==
    IF now = <<>> THEN <<>>
    ELSE [i \in 1..Len(pinnedCities) |->
            LET city        == pinnedCities[i]
                zoneTime    == ZoneTime(ZoneOffset(city.tz, now[1]), now[1])
                homeTime    == ZoneTime(HomeOffset(homeTz, now[1]), now[1])
                diffMinutes == Minus(zoneTime.offset, homeTime.offset)
            IN  [city        |-> city,
                 zoneTime    |-> zoneTime,
                 utcOffset   |-> formatOffset(zoneTime.offset),
                 diff        |-> formatDiff(diffMinutes),
                 diffMinutes |-> diffMinutes,
                 isDaytime   |-> isDaytime(zoneTime.hour)]]

\* the homeDerived memo: null, or the derived time of the home zone
homeDerived ==
    IF now = <<>> THEN <<>>
    ELSE LET homeTime == ZoneTime(HomeOffset(homeTz, now[1]), now[1])
         IN  << [offset |-> formatOffset(homeTime.offset), hour |-> homeTime.hour] >>

----------------------------------------------------------------------------
(* TimeSpec: the derived times of the home zone, the pinned cities and the   *)
(* hovered city.  The page is loaded on a URL that names the home zone,      *)
(* either a fixed-offset zone of any offset at the last instant of the       *)
(* calendar, or one of a few zones at any instant; the interval then         *)
(* advances now, an hour at a time.                                          *)

\* largest hour field of the fixed-offset home zones that are swept
MaxHours == 14

\* encodeURIComponent of a zone name: its "+" becomes %2B
RECURSIVE EncodePlus(_)
EncodePlus(text) ==
    IF text = <<>> THEN <<>>
    ELSE (IF Head(text) = "+" THEN <<"%","2","B">> ELSE <<Head(text)>>) \o EncodePlus(Tail(text))

\* the fixed-offset zones UTC+h, UTC-h, UTC+h:mm, UTC-h:mm, and three zones
\* at the far end of what luxon accepts
FixedZoneTexts ==
    {UTC \o sg \o NumberText(h, FALSE) \o m :
        sg \in {<<"+">>, <<"-">>}, h \in 0..MaxHours,
        m \in { <<>> } \cup {<<":">> \o NumberText(mm, TRUE) : mm \in 0..59}}
    \cup { UTC \o <<"+","9","9",":","9","9">>, UTC \o <<"-","9","9",":","5","9">>,
           UTC \o <<"-","0","5",":","3","0">> }

TokyoAndNewYork ==
    Compare \o <<"=">> \o Join(<<Chars["Tokyo"], ReplaceSpaces(Chars["New York"])>>, <<",">>)

HomeParam(text) == Home \o <<"=">> \o EncodePlus(text)

\* the URLs of the sweep: two pinned cities and a fixed-offset home zone
SweepSearches == {Join(<<TokyoAndNewYork, HomeParam(z)>>, <<"&">>) : z \in FixedZoneTexts}

\* the URLs of the calendar runs: with or without pinned cities; no home zone
\* (the browser's is taken), one luxon does not know, or a fixed-offset zone
CalendarSearches ==
    {Join(c \o h, <<"&">>) :
        c \in { <<>>, <<TokyoAndNewYork>> },
        h \in { <<>>, <<HomeParam(Atlantis)>>, <<HomeParam(UTC \o <<"+","5",":","3","0">>)>> }}

\* a catalog with a city whose zone luxon does not know
TimeCatalog == SampleCatalog(<<4, 1>>, 2)

TimeInit ==
    \/ ConstructedAt({ <<>> }, SweepSearches, {MaxClock})
    \/ ConstructedAt({TimeCatalog}, CalendarSearches, Instants)

\* the interval's callback: setNow(Date.now()), an hour after the last one
IntervalTick ==
    /\ mounted
    /\ clock < MaxClock
    /\ clock' = clock + 1
    /\ now' = <<clock'>>
    /\ UNCHANGED <<searchCatalog, pageVars, mounted, homeTz, pinnedCities, hiddenCities, hoverVars,
                   searchBoxVars, lastPin>>

Tick == pending = 0 /\ IntervalTick /\ Commit

\* a city of the search catalog is selected from the results of its own name
SampleSelect ==
    /\ pending = 0
    /\ \E c \in Range(searchCatalog) :
          /\ c \in Range(Results(searchCatalog, Chars[c.name], clock).results)
          /\ HandleSelect(c)
          /\ Commit

\* the pointer enters a dot at the start of a day or at the last instant, and
\* stays on it while the interval ticks
StartOfDayEnter == (clock % 24 = 0 \/ clock = MaxClock) /\ MarkerEnter

TimeNext ==
    \/ Mount
    \/ Rerender
    \/ Tick
    \/ HomePick
    \/ SampleSelect
    \/ StartOfDayEnter

TimeSpec == TimeInit /\ [][TimeNext]_vars

\* the text is a decimal numeral of n without leading zeros
Numeral(text, n) ==
    /\ text # <<>>
    /\ AllDigits(text)
    /\ ParseInt(text) = n
    /\ Len(text) > 1 => text[1] # "0"

\* the text shows the difference d: "same time", or the sign, the hours and
\* "h", and the minutes and "m" after a blank when the minutes are not zero
DiffTextOf(d, text) ==
    IF d = 0 THEN text = SameTime
    ELSE LET h == IndexOf(text, "h")
         IN  /\ h > 2
             /\ text[1] = (IF d > 0 THEN "+" ELSE "-")
             /\ Numeral(SubSeq(text, 2, h - 1), Abs(d) \div 60)
             /\ IF Abs(d) % 60 = 0 THEN Len(text) = h
                ELSE /\ Len(text) > h + 2
                     /\ text[h + 1] = " "
                     /\ text[Len(text)] = "m"
                     /\ Numeral(SubSeq(text, h + 2, Len(text) - 1), Abs(d) % 60)

\* the zone offsets the derived time of a city is made from, at the instant now
TargetOffset(city) == ZoneOffset(city.tz, now[1])
HomeZoneOffset == HomeOffset(homeTz, now[1])

\* C17: the difference shown for a pinned or hovered city is made from
\* d = the city's zone offset minus the home zone offset, in minutes, and
\* reads "same time" when d = 0, else the sign of d, |d| div 60 and "h", and
\* " {m}m" with m = |d| mod 60 only when m is not zero
C17_DiffFromOffsets ==
    (pending = 0 /\ now # <<>>) =>
        \A home \in {HomeZoneOffset}, pinned \in {pinnedDerived}, hovered \in {hoveredDerived} :
            home # NaN =>
                /\ \A i \in 1..Len(pinned) :
                      \A e \in {pinned[i]}, t \in {TargetOffset(pinnedCities[i])} :
                          t # NaN =>
                              /\ e.diffMinutes = <<t[1] - home[1]>>
                              /\ DiffTextOf(t[1] - home[1], e.diff)
                              /\ e.diffMinutes = <<330>>
                                    => e.diff = <<"+","5","h"," ","3","0","m">>
                              /\ e.diffMinutes = <<-180>> => e.diff = <<"-","3","h">>
                /\ \A i \in 1..Len(hovered) :
                      \A t \in {TargetOffset(hoveredCity[1])} :
                          t # NaN => DiffTextOf(t[1] - home[1], hovered[i].diff)

\* from a home zone at +210 Tokyo, at +540, is shown "+5h 30m" and New York,
\* at -240, is shown "-7h 30m"
C17_Witness ==
    /\ pending = 0
    /\ HasName(pinnedCities, "Tokyo")
    /\ \E i, j \in 1..Len(pinnedDerived) :
          /\ pinnedDerived[i].diffMinutes = <<330>>
          /\ pinnedDerived[i].diff = <<"+","5","h"," ","3","0","m">>
          /\ pinnedDerived[j].diffMinutes = <<-450>>
          /\ pinnedDerived[j].diff = <<"-","7","h"," ","3","0","m">>

\* the text shows the offset o: UTC, the sign, the hours in two digits or
\* more, a colon, the minutes in two digits
OffsetTextOf(o, text) ==
    LET colon == IndexOf(text, ":")
        hh    == SubSeq(text, 5, colon - 1)
        mm    == SubSeq(text, colon + 1, Len(text))
    IN  /\ colon >= 7
        /\ SubSeq(text, 1, 3) = UTC
        /\ text[4] = (IF o >= 0 THEN "+" ELSE "-")
        /\ AllDigits(hh) /\ ParseInt(hh) = Abs(o) \div 60
        /\ Len(hh) > 2 => hh[1] # "0"
        /\ Len(mm) = 2 /\ AllDigits(mm) /\ ParseInt(mm) = Abs(o) % 60

\* C18: for an integer offset in minutes formatOffset gives UTC, "+" when the
\* offset is 0 or more and "-" otherwise, |offset| div 60 in two digits, a
\* colon and |offset| mod 60 in two digits
C18_FormatOffset ==
    (pending = 0 /\ now # <<>>) =>
        \A home \in {homeDerived}, pinned \in {pinnedDerived}, hovered \in {hoveredDerived} :
            /\ \A i \in 1..Len(home) :
                  \A o \in {HomeZoneOffset}, text \in {home[i].offset} :
                      o # NaN =>
                          /\ OffsetTextOf(o[1], text)
                          /\ o = <<330>> => text = <<"U","T","C","+","0","5",":","3","0">>
                          /\ o = <<-480>> => text = <<"U","T","C","-","0","8",":","0","0">>
                          /\ o = <<0>> => text = <<"U","T","C","+","0","0",":","0","0">>
            /\ \A i \in 1..Len(pinned) :
                  \A o \in {TargetOffset(pinnedCities[i])} :
                      o # NaN => OffsetTextOf(o[1], pinned[i].utcOffset)
            /\ \A i \in 1..Len(hovered) :
                  \A o \in {TargetOffset(hoveredCity[1])} :
                      o # NaN => OffsetTextOf(o[1], hovered[i].utcOffset)

\* a home zone five minutes behind UTC is shown as UTC-00:05
C18_Witness ==
    /\ pending = 0
    /\ homeTz = UTC \o <<"-","0",":","0","5">>
    /\ homeDerived # <<>>
    /\ homeDerived[1].offset = <<"U","T","C","-","0","0",":","0","5">>

\* C19: a pinned city is flagged day exactly when its local hour h is in
\* 6 <= h < 20; at every other hour of the day it is flagged night
C19_DayFromSixToTwenty ==
    (pending = 0 /\ now # <<>>) =>
        \A pinned \in {pinnedDerived} : \A i \in 1..Len(pinned) :
            \A e \in {pinned[i]} :
                /\ e.zoneTime.hour # NaN =>
                      /\ e.zoneTime.hour[1] \in 0..23
                      /\ e.isDaytime <=> e.zoneTime.hour[1] \in 6..19
                /\ e.zoneTime.hour = NaN => ~e.isDaytime

\* at 11 h UTC in winter it is 6 h, day, in New York and 20 h, night, in Tokyo
C19_Witness ==
    /\ pending = 0
    /\ \E i, j \in 1..Len(pinnedDerived) :
          /\ pinnedDerived[i].zoneTime.hour = <<6>> /\ pinnedDerived[i].isDaytime
          /\ pinnedDerived[j].zoneTime.hour = <<20>> /\ ~pinnedDerived[j].isDaytime

\* C20 as stated: with a zone that cannot be resolved the values made from it
\* are absent: no home derived value for such a home zone, no hovered derived
\* value when the hovered city's or the home zone is such, no entry for a
\* pinned city of such a zone, and an entry for every other pinned city
C20_UnresolvedIsAbsent ==
    (pending = 0 /\ now # <<>>) =>
        /\ HomeZoneOffset = NaN => homeDerived = <<>>
        /\ (hoveredCity # <<>> /\ (HomeZoneOffset = NaN \/ TargetOffset(hoveredCity[1]) = NaN))
              => hoveredDerived = <<>>
        /\ \A pinned \in {pinnedDerived} : \A i \in 1..Len(pinnedCities) :
              LET listed == \E k \in 1..Len(pinned) : pinned[k].city = pinnedCities[i]
              IN  IF TargetOffset(pinnedCities[i]) = NaN THEN ~listed ELSE listed
----------------------------------------------------------------------------
(* PageSpec: the share button and the theme.  The page is loaded with any of *)
(* four contents of localStorage["tz-theme"]: nothing, one of the two themes *)
(* or some other text.  What the clipboard does is the browser's choice.     *)

\* most timeouts of handleShare that are pending at a time
MaxShares == 2

StoredThemes == { <<>>, <<"light">>, <<"dark">>, <<"blue">> }

\* navigator.clipboard.writeText resolves, or fails (rejected, or no clipboard)
ClipboardOutcomes == { "resolved", "rejected" }

\* document.execCommand("copy") returns true or false, or throws
ExecCommandOutcomes == { "true", "false", "thrown" }

\* handleShare, from the click to the end of its try or catch block
handleShare(primary, fallback) ==
    /\ mounted
    /\ \E set \in {primary = "resolved" \/ fallback # "thrown"} :
           /\ copied' = IF set THEN TRUE ELSE copied
           /\ copiedTimers' = IF set THEN copiedTimers + 1 ELSE copiedTimers
    /\ lastShare' = CASE primary = "resolved" -> "written"
                      [] fallback = "true"    -> "fallback"
                      [] fallback = "false"   -> "refused"
                      [] OTHER                -> "thrown"
    /\ UNCHANGED <<searchCatalog, timeVars, unmapped, theme, mounted, homeTz, pinnedCities,
                   hiddenCities, hoverVars, searchBoxVars, lastPin>>

\* a 2000 ms timeout of handleShare fires
CopiedTimeout ==
    /\ copiedTimers > 0
    /\ copied' = FALSE
    /\ copiedTimers' = copiedTimers - 1
    /\ UNCHANGED <<searchCatalog, timeVars, unmapped, theme, lastShare, mounted, homeTz,
                   pinnedCities, hiddenCities, hoverVars, searchBoxVars, lastPin>>

\* the theme buttons: setTheme((t) => (t === "dark" ? "light" : "dark"))
ToggleTheme ==
    /\ mounted
    /\ theme' = IF theme = "dark" THEN "light" ELSE "dark"
    /\ UNCHANGED <<searchCatalog, timeVars, unmapped, copied, copiedTimers, lastShare, mounted,
                   homeTz, pinnedCities, hiddenCities, hoverVars, searchBoxVars, lastPin>>

ShareClick ==
    /\ pending = 0
    /\ copiedTimers < MaxShares
    /\ \E primary \in ClipboardOutcomes, fallback \in ExecCommandOutcomes :
           handleShare(primary, fallback)
    /\ Commit
CopiedReset     == pending = 0 /\ CopiedTimeout /\ Commit
ThemeClick      == pending = 0 /\ ToggleTheme /\ Commit
EarlyThemeClick == Waiting /\ ToggleTheme /\ Defer

PageInit == ConstructedWith({CITIES}, {<<>>}, {0}, {{}}, StoredThemes)

PageNext ==
    \/ Mount
    \/ Rerender
    \/ ShareClick
    \/ CopiedReset
    \/ ThemeClick
    \/ EarlyThemeClick
    \/ PageReload

PageSpec == PageInit /\ [][PageNext]_vars

\* the steps in which handleShare runs
ShareCall == \E primary \in ClipboardOutcomes, fallback \in ExecCommandOutcomes :
                handleShare(primary, fallback)

\* C21: a share request sets "copied" when the clipboard write or the fallback
\* copy succeeds, and leaves it as it was when both fail
C21_CopiedIffCopySucceeded ==
    [][ShareCall => /\ lastShare' \in {"written", "fallback"} => copied'
                    /\ lastShare' \in {"refused", "thrown"} => copied' = copied]_vars

\* the theme a load ends with: the stored one if it is a theme, else the default
LoadedTheme(stored) == IF stored \in {<<"light">>, <<"dark">>} THEN stored[1] ELSE "dark"

\* C22: the stored value is not written before the mount effect has read it,
\* the mount effect starts the page with the stored theme, or with "dark" when
\* nothing or something other than the two themes is stored, and once the
\* page is rendered the stored value is the current theme
C22_ThemeSurvivesReload ==
    [][/\ (~mounted \/ ~mounted') => storedTheme' = storedTheme
       /\ (~mounted /\ mounted') => theme' = LoadedTheme(storedTheme)
       /\ (mounted' /\ pending' = 0) => storedTheme' = <<theme'>>]_vars

\* the page has been loaded again, on the URL it wrote, while "light" is
\* stored: the theme is the default until the mount effect reads the store
C22_Witness ==
    /\ ~mounted
    /\ search # <<>>
    /\ theme = "dark" /\ storedTheme = <<"light">> /\ ~darkClass

----------------------------------------------------------------------------
(* The map's dots: claims C23 and C28 *)

\* the steps in which the remove button of the tooltip of city c is clicked
RemoveCall(c) == tooltip = <<c>> /\ TooltipRemove

\* C23: a city removed with the tooltip's remove button is hidden and no longer
\* pinned; under every query a city that is hidden, not pinned and not a
\* result is not among the visible cities, a result is, and so is a pinned
\* city; and a step that pins a city leaves it out of the hidden set
C23_RemovedUntilSearchedOrPinned ==
    [][\A c \in Range(CITIES) :
          /\ RemoveCall(c) => (c.name \in hiddenCities' /\ ~HasName(pinnedCities', c.name))
          /\ (PinCall(c) /\ HasName(pinnedCities', c.name)) => c.name \notin hiddenCities'
          /\ \A q \in AnyQuery :
                \E dots \in {visibleCities(CITIES, pinnedCities', CityResults[q], hiddenCities')} :
                    /\ ( /\ c.name \in hiddenCities'
                         /\ ~HasName(pinnedCities', c.name)
                         /\ ~HasName(CityResults[q], c.name) ) => ~HasName(dots, c.name)
                    /\ HasName(CityResults[q], c.name) => HasName(dots, c.name)
                    /\ HasName(pinnedCities', c.name) => HasName(dots, c.name)]_vars

\* C28: in every reachable state no city is both pinned and in the hidden set
C28_NeverPinnedAndHidden ==
    \A c \in Range(CITIES) : ~(HasName(pinnedCities, c.name) /\ c.name \in hiddenCities)

----------------------------------------------------------------------------
(* SyncSpec: the URL sync.  The page is loaded on the bare URL; clicks on    *)
(* the map, on "Clear all" and in the home timezone picker are rendered at   *)
(* once or wait for a render.  React renders every state update in the end:  *)
(* the re-render is weakly fair.                                             *)

EarlyHomePick == Waiting /\ \E tz \in PickerZones : SetHomeTz(tz) /\ Defer

SyncInit == Constructed({CITIES}, {<<>>})

SyncNext ==
    \/ Mount
    \/ Rerender
    \/ MapClick
    \/ ClearAllClick
    \/ HomePick
    \/ EarlyMapClick
    \/ EarlyClearAll
    \/ EarlyHomePick

\* the steps that render the updates that wait: the Rerender steps, which are
\* enabled exactly while an update waits
Rendering == pending > 0 /\ pending' = 0

SyncSpec == SyncInit /\ [][SyncNext]_vars /\ WF_pending(Rendering)

\* a text with "%20" for each of its spaces
RECURSIVE Escaped(_)
Escaped(text) ==
    IF text = <<>> THEN <<>>
    ELSE (IF text[1] = " " THEN <<"%","2","0">> ELSE <<text[1]>>) \o Escaped(Tail(text))

\* the names of the cities, in their order, with a comma between two of them
RECURSIVE CommaSeparated(_)
CommaSeparated(cities) ==
    IF cities = <<>> THEN <<>>
    ELSE Escaped(Chars[cities[1].name])
         \o (IF Len(cities) > 1 THEN <<",">> ELSE <<>>)
         \o CommaSeparated(Tail(cities))

\* the query that describes the state: compare=<names>, unless nothing is
\* pinned, and home=<home timezone>
DescribedQuery ==
    (IF pinnedCities = <<>> THEN <<>>
     ELSE Compare \o <<"=">> \o CommaSeparated(pinnedCities) \o <<"&">>)
    \o Home \o <<"=">> \o Escaped(homeTz)

\* C24: after mount, whenever no render is pending the URL query is
\* compare=<pinned names in pin order, comma separated>&home=<home timezone>,
\* without the compare parameter when nothing is pinned; and a URL that does
\* not describe the pinned set and the home timezone is eventually rewritten
\* to one that does
C24_UrlFollowsState ==
    /\ []((mounted /\ pending = 0) => search = DescribedQuery)
    /\ (mounted /\ search # DescribedQuery) ~> (search = DescribedQuery)

\* two pins and a picked home zone, all rendered, with the URL that names them
C24_Witness ==
    /\ mounted /\ pending = 0
    /\ Names(pinnedCities) = <<"Tokyo", "New York">>
    /\ homeTz = DefaultHomeTz
    /\ search = Compare \o <<"=">> \o Chars["Tokyo"] \o <<",">>
                \o <<"N","e","w","%","2","0","Y","o","r","k">>
                \o <<"&">> \o Home \o <<"=">> \o DefaultHomeTz

----------------------------------------------------------------------------
(* The tick: claim C25 *)

\* C25: in every rendered state the time the map tooltip displays is the time
\* of its city's zone at the shared instant now, as are the derived times of
\* the panels
C25_TooltipTimeIsNow ==
    (pending = 0 /\ now # <<>> /\ tooltip # <<>>) =>
        tooltipTime = ZoneTime(ZoneOffset(tooltip[1].tz, now[1]), now[1]).hour

----------------------------------------------------------------------------
(* HoverSpec: the hover state and its dismiss timer.  The page is loaded on  *)
(* the bare URL, with a projection that maps every city or one that gives no *)
(* point for Oslo.  A timeout that is pending fires in the end: the firing   *)
(* of the dismiss timer is weakly fair.                                      *)

BlindSpots == { {}, {"Oslo"} }

HoverInit == ConstructedWith({CITIES}, {<<>>}, {0}, BlindSpots, {<<>>})

HoverNext ==
    \/ Mount
    \/ Rerender
    \/ MapClick
    \/ MarkerEnter
    \/ MarkerLeave
    \/ TooltipEnter
    \/ TooltipLeave
    \/ DismissFires
    \/ TooltipRemoveClick

\* the steps in which the timeout the ref names fires: DismissFires steps,
\* enabled exactly while that timeout is pending
Firing ==
    /\ pending = 0
    /\ dismissPending
    /\ dismissPending' = FALSE
    /\ hoveredCity' = <<>> /\ tooltip' = <<>> /\ tooltipTime' = NaN
    /\ UNCHANGED <<hoverDismissTimer, orphanTimers>>

HoverSpec == HoverInit /\ [][HoverNext]_vars /\ WF_hoverVars(Firing)

\* the dismiss timeouts that are pending
PendingDismissTimers == (IF dismissPending THEN 1 ELSE 0) + orphanTimers

\* C26: at most one hover-dismiss timer is pending at any time, and it is the
\* one hoverDismissTimer names
C26_AtMostOneDismissTimer ==
    /\ PendingDismissTimers <= 1
    /\ dismissPending => hoverDismissTimer

\* a dismiss is scheduled while the tooltip is shown
C26_Witness ==
    /\ PendingDismissTimers = 1
    /\ tooltip # <<>> /\ hoveredCity # <<>>

\* the steps in which the pointer enters a marker or the tooltip
EnterStep == (\E c \in Range(CITIES) : CityHoverEnter(c)) \/ cancelDismiss

\* C27: after the pointer has entered a marker or the tooltip no dismiss
\* timer is left to fire; the hovered city and the tooltip are cleared by a
\* timer only together; and a pending dismiss timer is eventually cancelled
\* by such an entry or fires, clearing both
C27_DismissUnlessReentered ==
    /\ [][/\ EnterStep => PendingDismissTimers' = 0
          /\ (dismissPending /\ ~dismissPending' /\ ~EnterStep)
                => (hoveredCity' = <<>> /\ tooltip' = <<>>)]_vars
    /\ dismissPending ~> (~dismissPending)

\* the pointer is back on the tooltip of a pinned city after a leave: the
\* timer is cancelled and the tooltip is shown
C27_Witness ==
    /\ hoverDismissTimer = FALSE /\ ~dismissPending
    /\ tooltip # <<>> /\ hoveredCity = tooltip
    /\ HasName(pinnedCities, tooltip[1].name)

----------------------------------------------------------------------------
(* The keyboard cursor of the search box: claim C29 *)

\* C29: in every reachable state of the search box the keyboard cursor is -1
\* or the index of a result: -1 <= activeIndex <= (number of results) - 1
C29_CursorInRange ==
    \A r \in {Results(searchCatalog, query, clock)} :
        -1 <= activeIndex /\ activeIndex <= Len(FlatResults(r)) - 1

====
